---- MODULE Spec2Model ----
(***************************************************************************)
(* Job status reconciliation of the Sora2 video backend: the video_jobs    *)
(* table, the create handler that inserts into it and the background task  *)
(* poll_pending_jobs that polls the remote API and writes the answers back. *)
(***************************************************************************)
EXTENDS Integers, Sequences, FiniteSets, TLC

\* ---------------------------------------------------------------- bounds
MaxJobs == 2            \* rows the video_jobs table may hold
MaxClock == 1           \* readings of datetime.utcnow() that are told apart

JobIds == 1..MaxJobs

\* ------------------------------------------------------------ VideoStatusEnum
QUEUED == "queued"
PROCESSING == "processing"
COMPLETED == "completed"
FAILED == "failed"

VideoStatusEnum == {QUEUED, PROCESSING, COMPLETED, FAILED}
Terminal == {COMPLETED, FAILED}

\* the statuses _poll_once filters on when it loads its working set
PollableMutant == {QUEUED, PROCESSING, FAILED}
PollableQueuedMutant == {QUEUED}
Pollable == {QUEUED, PROCESSING}

\* ------------------------------------------------------------------ None
NULL == "None"          \* None in a nullable string column or dict lookup
NoTime == 0 - 1         \* None in a nullable DateTime column

\* ------------------------------------------------- what the remote API says
\* a status string of a response body; ABSENT: the key is not in the body
ABSENT == "absent"
StatusStrings == VideoStatusEnum \cup {"in_progress"}

\* the "error" member of a response body: not there, JSON null, an object
\* without a message, an object with the message "boom"
ErrorShapes == {"absent", "null", "nomsg", "msg"}

\* bodies of non-2xx responses (exc.response.text); the empty body is a string
Bodies == {"", "rate limited"}

\* an expiry string is one of these; the last does not parse
ExpiryZ == "2030-01-01T00:00:00Z"
ExpiryOffset == "2030-01-01T00:00:00+00:00"
ExpiryBad == "tomorrow"
\* an expiry that is not a string but the JSON number 1893456000
ExpiryNumber == "1893456000 (number)"
\* the instant both well-formed strings denote
Instant2030 == 99

\* the content members of a response body (result or top level)
EmptyPayload ==
    [default_variant |-> NULL, variant |-> NULL, content_variants |-> << >>,
     variants |-> << >>, content_token |-> NULL, download_token |-> NULL,
     content_token_expires_at |-> NULL, token_expires_at |-> NULL]

Payloads ==
    { EmptyPayload,
      [EmptyPayload EXCEPT !.default_variant = "hd", !.download_token = "tok",
                           !.content_token_expires_at = ExpiryZ] }

\* what one call of retrieve_video can end in: a body (of which the error
\* member is read only beside "failed" and the content members only beside
\* "completed"), a non-2xx response, or no response at all
Outcomes ==
    [kind : {"ok"}, body : {NULL},
     status : (StatusStrings \cup {ABSENT}) \ {COMPLETED, FAILED},
     error : {"absent"}, payload : {EmptyPayload}]
    \cup [kind : {"ok"}, body : {NULL}, status : {FAILED},
          error : ErrorShapes, payload : {EmptyPayload}]
    \cup [kind : {"ok"}, body : {NULL}, status : {COMPLETED},
          error : {"absent"}, payload : Payloads]
    \cup [kind : {"upstream"}, body : Bodies, status : {ABSENT},
          error : {"absent"}, payload : {EmptyPayload}]
    \cup [kind : {"network"}, body : {NULL}, status : {ABSENT},
          error : {"absent"}, payload : {EmptyPayload}]

VARIABLES
    OPENAI_API_KEY,     \* TRUE iff the credential is a non-empty string
    video_jobs,         \* the committed rows of the table, by job id
    now,                \* the reading of datetime.utcnow()
    pc,                 \* where poll_pending_jobs stands
    client,             \* TRUE iff the loop's client is not None
    session,            \* the rows _poll_once holds in its session (kept, as
                        \* they were at the commit, until the sleep is over)
    jobs,               \* the rows _poll_once has still to poll, in load order
    log,                \* how each call of retrieve_video ended in the tick
                        \* that runs or has just ended
    lastTick,           \* how the last finished tick ended
    reply,              \* the call of a handler made in the last step and what
                        \* it answered (NoReply after any other step)
    stream              \* the remote connection and the body iterator of the
                        \* media response that was opened last

vars == <<OPENAI_API_KEY, video_jobs, now, pc, client, session, jobs, log, lastTick,
          reply, stream>>

Empty == [j \in {} |-> NULL]

\* a handler call: the handler, its input, the remote call it made ("none",
\* "create" or "content") with what that call sent and how it was answered,
\* the status code of the reply and the rows handed to build_job_schema
Reply(op, input, called, sent, answer, code, rows) ==
    [op |-> op, input |-> input, called |-> called, sent |-> sent,
     answer |-> answer, code |-> code, jobs |-> rows]

NoReply == Reply("none", NULL, "none", NULL, NULL, 0, << >>)

\* no media response has been opened, or none that was opened is left
NoStream == [conn |-> "none", iter |-> "none"]

\* a step of the loop or of the clock: no handler is called, no stream moves
Silent == reply' = NoReply /\ stream' = stream

\* the bodies of POST /api/videos: the prompt alone, or every member given
\* (the duration 8 is written as its digits)
MinimalRequest ==
    [prompt |-> "a cat", duration |-> NULL, format |-> NULL,
     aspect_ratio |-> NULL, user_id |-> NULL]

FullRequest ==
    [prompt |-> "a dog", duration |-> "8", format |-> "mp4",
     aspect_ratio |-> "16:9", user_id |-> "u1"]

Requests == {MinimalRequest, FullRequest}

VideoJobMutant(job_id, request, rid, status, variant, ready, token, expires, t) ==
    [id |-> job_id,
     user_id |-> IF request.user_id = NULL THEN "demo-user" ELSE request.user_id,
     prompt |-> request.prompt, aspect_ratio |-> request.aspect_ratio,
     duration |-> request.duration, format |-> request.format,
     created_at |-> t,
     sora_job_id |-> rid, status |-> QUEUED, error_message |-> NULL,
     content_variant |-> variant, content_token |-> token,
     content_token_expires_at |-> expires, content_ready_at |-> ready,
     updated_at |-> t]

\* the row create_video inserts at time t under the local id job_id for the
\* request body request
VideoJob(job_id, request, rid, status, variant, ready, token, expires, t) ==
    [id |-> job_id,
     user_id |-> IF request.user_id = NULL THEN "demo-user" ELSE request.user_id,
     prompt |-> request.prompt, aspect_ratio |-> request.aspect_ratio,
     duration |-> request.duration, format |-> request.format,
     created_at |-> t,
     sora_job_id |-> rid, status |-> status, error_message |-> NULL,
     content_variant |-> variant, content_token |-> token,
     content_token_expires_at |-> expires, content_ready_at |-> ready,
     updated_at |-> t]

Or(a, b) == IF a = NULL \/ a = "" THEN b ELSE a

\* _parse_datetime: None and "" give None, a trailing Z is read as +00:00,
\* whatever fromisoformat refuses gives None
parse_datetime(value) ==
    IF value = NULL \/ value = "" THEN NoTime
    ELSE LET v == IF value = ExpiryZ THEN ExpiryOffset ELSE value
         IN  IF v = ExpiryOffset THEN Instant2030 ELSE NoTime

\* _update_content_metadata that looks at "variant" before "default_variant"
update_content_metadataSwapMutant(job, payload, t) ==
    LET variants == IF payload.content_variants # << >>
                    THEN payload.content_variants ELSE payload.variants
        variant == Or(payload.variant,
                      Or(payload.default_variant,
                         IF variants # << >> THEN variants[1] ELSE NULL))
    IN  [job EXCEPT
           !.content_variant = IF variant # NULL /\ variant # "" THEN variant
                               ELSE IF @ = NULL THEN "source" ELSE @,
           !.content_ready_at = IF @ = NoTime THEN t ELSE @]

\* _parse_datetime calls value.endswith inside a try that catches ValueError
\* only: a value that is not a string raises AttributeError
ParseRaises(value) == value = ExpiryNumber

update_content_metadataMutant(job, payload, t) ==
    [job EXCEPT !.content_variant = IF @ = NULL THEN "source" ELSE @]

update_content_metadata(job, payload, t) ==
    LET variants == IF payload.content_variants # << >>
                    THEN payload.content_variants ELSE payload.variants
        variant == Or(payload.default_variant,
                      Or(payload.variant,
                         IF variants # << >> THEN variants[1] ELSE NULL))
        token == Or(payload.content_token, payload.download_token)
        expires_at == Or(payload.content_token_expires_at, payload.token_expires_at)
        parsed_expires == parse_datetime(expires_at)
    IN  [job EXCEPT
           !.content_variant = IF variant # NULL /\ variant # "" THEN variant
                               ELSE IF @ = NULL THEN "source" ELSE @,
           !.content_token = IF token # NULL /\ token # "" THEN token ELSE @,
           !.content_token_expires_at =
               IF parsed_expires # NoTime THEN parsed_expires ELSE @,
           !.content_ready_at = IF @ = NoTime THEN t ELSE @]

\* lines 99-124 of _poll_once for one job: the row as the session holds it
\* after the call ended in outcome o at time t, and whether an exception
\* other than the two httpx ones left the loop body
OnHTTPStatusErrorMutant(job, body, t) ==
    [job EXCEPT !.error_message = "Generation failed", !.status = FAILED, !.updated_at = t]

OnHTTPStatusError(job, body, t) ==
    [job EXCEPT !.error_message = body, !.status = FAILED, !.updated_at = t]

OnRequestErrorMutant(job) == [job EXCEPT !.error_message = "network error"]
OnRequestError(job) == job

ErrorMessage(error) == IF error = "msg" THEN "boom" ELSE "Generation failed"

OnResponseMutant(job, o, t) ==
    [job EXCEPT !.status = IF o.status = ABSENT THEN @ ELSE o.status,
                !.updated_at = t, !.created_at = t]

OnResponse(job, o, t) ==
    LET status == IF o.status = ABSENT THEN job.status ELSE o.status
        job1 == [job EXCEPT !.status = status, !.updated_at = t]
    IN  IF status = COMPLETED
        THEN update_content_metadata([job1 EXCEPT !.error_message = NULL], o.payload, t)
        ELSE IF status = FAILED
        THEN [job1 EXCEPT !.error_message = ErrorMessage(o.error)]
        ELSE [job1 EXCEPT !.error_message = NULL]

\* response.get("error", {}).get("message") on a JSON null raises
\* AttributeError, and so does _parse_datetime on an expiry that is no string
Raises(job, o) ==
    /\ o.kind = "ok"
    /\ LET status == IF o.status = ABSENT THEN job.status ELSE o.status
       IN  \/ status = FAILED /\ o.error = "null"
           \/ /\ status = COMPLETED
              /\ ParseRaises(Or(o.payload.content_token_expires_at,
                                 o.payload.token_expires_at))

\* the row as lines 113-115 left it when line 121 raised, or as lines 113-143
\* left it when line 144 raised
RaisedAt(job, o, t) ==
    LET status == IF o.status = ABSENT THEN job.status ELSE o.status
        job1 == [job EXCEPT !.status = status, !.updated_at = t]
    IN  IF status = COMPLETED
        THEN [update_content_metadata([job1 EXCEPT !.error_message = NULL],
                                      [o.payload EXCEPT !.content_token_expires_at = NULL,
                                                        !.token_expires_at = NULL], t)
                EXCEPT !.content_ready_at = job.content_ready_at]
        ELSE job1

PollJob(job, o, t) ==
    IF o.kind = "upstream" THEN OnHTTPStatusError(job, o.body, t)
    ELSE IF o.kind = "network" THEN OnRequestError(job)
    ELSE OnResponse(job, o, t)

\* get_openai_client: TRUE iff a client is returned, FALSE iff it raises
get_openai_clientMutant == TRUE
get_openai_client == OPENAI_API_KEY

\* a commit that writes the table anew from the rows of the session
CommitLoadedMutant(table, sess) == [j \in DOMAIN sess |-> sess[j]]

\* session_scope on a normal exit: the rows of the session are written
Commit(table, sess) ==
    [j \in DOMAIN table |-> IF j \in DOMAIN sess THEN sess[j] ELSE table[j]]

\* session_scope on an exception: nothing of the session is written
RollbackMutant(table, sess) == Commit(table, sess)
Rollback(table, sess) == table

\* where the loop goes after a tick, whatever its outcome: the sleep of line 88
AfterTickMutant(outcome) == IF outcome = "aborted" THEN "stopped" ELSE "sleep"
AfterTick(outcome) == "sleep"

\* the orders in which .all() may hand back the set S of rows
Orders(S) ==
    {s \in [1..Cardinality(S) -> S] : \A a, b \in 1..Cardinality(S) : s[a] = s[b] => a = b}

\* the remote ids a submit call may answer with: the ones some row of the
\* table already carries, and a new one (remote ids are opaque, so the k-th
\* distinct one is called k)
RemoteIds(table) == 1..(Cardinality(DOMAIN table) + 1)

\* a table left by an earlier run of the service: empty, or one queued job
PersistedTables ==
    { Empty,
      [j \in {1} |-> VideoJob(1, MinimalRequest, 1, QUEUED, NULL, NoTime, NULL, NoTime, 0)] }

Init ==
    /\ OPENAI_API_KEY \in BOOLEAN
    /\ video_jobs \in PersistedTables
    /\ now = 0
    /\ reply = NoReply
    /\ stream = NoStream
    /\ pc = "startup"
    /\ client = FALSE
    /\ session = Empty
    /\ jobs = << >>
    /\ log = Empty
    /\ lastTick = "none"

\* lines 71-76: the first attempt to build the client
Startup ==
    /\ pc = "startup"
    /\ client' = get_openai_client
    /\ pc' = "top"
    /\ UNCHANGED <<OPENAI_API_KEY, video_jobs, now, session, jobs, log, lastTick>>
    /\ Silent

\* lines 79-85 with no client to be had: the tick is skipped
TickNoClient ==
    /\ pc = "top"
    /\ ~client /\ ~get_openai_client
    /\ client' = FALSE
    /\ lastTick' = "noclient"
    /\ pc' = AfterTick("noclient")
    /\ log' = Empty
    /\ session' = Empty
    /\ jobs' = << >>
    /\ UNCHANGED <<OPENAI_API_KEY, video_jobs, now>>
    /\ Silent

\* lines 79-97: the client is there (or is built), the working set is loaded;
\* an empty working set is committed at once
TickBegin ==
    /\ pc = "top"
    /\ client \/ get_openai_client
    /\ client' = TRUE
    /\ LET loaded == {j \in DOMAIN video_jobs : video_jobs[j].status \in Pollable}
       IN  /\ session' = [j \in loaded |-> video_jobs[j]]
           /\ log' = Empty
           /\ IF loaded = {}
              THEN /\ jobs' = << >>
                   /\ video_jobs' = Commit(video_jobs, session')
                   /\ lastTick' = "ok"
                   /\ pc' = AfterTick("ok")
              ELSE /\ jobs' \in Orders(loaded)
                   /\ pc' = "polling"
                   /\ UNCHANGED <<video_jobs, lastTick>>
    /\ UNCHANGED <<OPENAI_API_KEY, now>>
    /\ Silent

\* lines 98-124 for the next job of the working set, from the answer o of
\* retrieve_video up to the next call or, after the last job, the commit
PollWith(o) ==
    /\ pc = "polling"
    /\ jobs # << >>
    /\ LET j == Head(jobs) IN
         /\ log' = [k \in DOMAIN log \cup {j} |->
                      IF k = j THEN [kind |-> o.kind, body |-> o.body] ELSE log[k]]
         /\ IF Raises(session[j], o)
            THEN /\ video_jobs' = Rollback(video_jobs,
                                     [session EXCEPT ![j] = RaisedAt(session[j], o, now)])
                 /\ session' = Empty
                 /\ jobs' = << >>
                 /\ lastTick' = "aborted"
                 /\ pc' = AfterTick("aborted")
            ELSE /\ session' = [session EXCEPT ![j] = PollJob(session[j], o, now)]
                 /\ jobs' = Tail(jobs)
                 /\ IF Tail(jobs) = << >>
                    THEN /\ video_jobs' = Commit(video_jobs, session')
                         /\ lastTick' = "ok"
                         /\ pc' = AfterTick("ok")
                    ELSE UNCHANGED <<video_jobs, lastTick, pc>>
    /\ UNCHANGED <<OPENAI_API_KEY, now, client>>
    /\ Silent

Poll == \E o \in Outcomes : PollWith(o)

\* line 88: the sleep is over
Wake ==
    /\ pc = "sleep"
    /\ pc' = "top"
    /\ session' = Empty
    /\ log' = Empty
    /\ UNCHANGED <<OPENAI_API_KEY, video_jobs, now, client, jobs, lastTick>>
    /\ Silent

\* aspect_ratio_to_resolution: a preset gives its resolution, anything else
\* is passed on as it is
aspect_ratio_to_resolution(aspect_ratio) ==
    IF aspect_ratio = NULL THEN NULL
    ELSE IF aspect_ratio = "16:9" THEN "1920x1080"
    ELSE IF aspect_ratio = "9:16" THEN "1080x1920"
    ELSE IF aspect_ratio = "1:1" THEN "1024x1024"
    ELSE IF aspect_ratio = "4:3" THEN "1440x1080"
    ELSE aspect_ratio

\* the payload create_video submits (NULL: the key is left out)
SubmitPayload(request) ==
    [prompt |-> request.prompt, duration |-> request.duration,
     format |-> request.format, size |-> aspect_ratio_to_resolution(request.aspect_ratio)]

\* the status code of a non-2xx response of the remote API
UpstreamCode == 429

\* create_video, lines 153-200, for a submit call that returned a body with
\* the remote id rid, the status string status and the content members
\* payload; a remote id that a row already carries fails the unique
\* constraint at the commit: nothing is inserted and the reply is a 500 (of
\* the answer to a submit that ends so, the reply records the remote id only)
CreateWith(request, rid, status, payload) ==
    /\ get_openai_client
    /\ Cardinality(DOMAIN video_jobs) < MaxJobs
    /\ LET job_id == Cardinality(DOMAIN video_jobs) + 1
           token == Or(payload.content_token, payload.download_token)
           expires_at == parse_datetime(Or(payload.content_token_expires_at,
                                           payload.token_expires_at))
           job == VideoJob(job_id, request, rid,
                           IF status = ABSENT THEN QUEUED ELSE status,
                           IF status = COMPLETED THEN payload.default_variant ELSE NULL,
                           IF status = COMPLETED THEN now ELSE NoTime,
                           token, expires_at, now)
           answer == [kind |-> "ok", id |-> rid, status |-> status]
       IN  IF \E k \in DOMAIN video_jobs : video_jobs[k].sora_job_id = rid
           THEN /\ UNCHANGED video_jobs
                /\ reply' = Reply("create", request, "create", SubmitPayload(request),
                                  [kind |-> "ok", id |-> rid, status |-> NULL],
                                  500, << >>)
           ELSE /\ video_jobs' = [k \in DOMAIN video_jobs \cup {job_id} |->
                                    IF k = job_id THEN job ELSE video_jobs[k]]
                /\ reply' = Reply("create", request, "create", SubmitPayload(request),
                                  answer, 200, <<job>>)
    /\ UNCHANGED <<OPENAI_API_KEY, now, pc, client, session, jobs, log, lastTick, stream>>

\* the bodies a submit call may answer with: the content members come with
\* the status "completed" only
SubmitBodies ==
    {b \in [status : StatusStrings \cup {ABSENT}, payload : Payloads] :
        b.status # COMPLETED => b.payload = EmptyPayload}

\* a create_video that adds its row before it knows how the submit call ends
CreateFailsMutant(request, kind) ==
    /\ IF ~get_openai_client
       THEN /\ kind = "nocredential"
            /\ reply' = Reply("create", request, "none", NULL, NULL, 500, << >>)
       ELSE /\ kind \in {"upstream", "network", "noid"}
            /\ reply' = Reply("create", request, "create", SubmitPayload(request),
                              [kind |-> kind, id |-> NULL, status |-> ABSENT],
                              IF kind = "upstream" THEN UpstreamCode
                              ELSE IF kind = "network" THEN 502 ELSE 500, << >>)
    /\ LET job_id == Cardinality(DOMAIN video_jobs) + 1
       IN  IF job_id > MaxJobs THEN UNCHANGED video_jobs
           ELSE video_jobs' = [k \in DOMAIN video_jobs \cup {job_id} |->
                                 IF k = job_id
                                 THEN VideoJob(job_id, request, 0, QUEUED, NULL, NoTime,
                                               NULL, NoTime, now)
                                 ELSE video_jobs[k]]
    /\ UNCHANGED <<OPENAI_API_KEY, now, pc, client, session, jobs, log, lastTick, stream>>

\* create_video when get_openai_client raises (lines 45-53), when the submit
\* call ends in a non-2xx response or in no response (lines 167-172), or when
\* it returns a body without "id", so that response["id"] raises KeyError
\* (line 183)
CreateFails(request, kind) ==
    /\ IF ~get_openai_client
       THEN /\ kind = "nocredential"
            /\ reply' = Reply("create", request, "none", NULL, NULL, 500, << >>)
       ELSE /\ kind \in {"upstream", "network", "noid"}
            /\ reply' = Reply("create", request, "create", SubmitPayload(request),
                              [kind |-> kind, id |-> NULL, status |-> ABSENT],
                              IF kind = "upstream" THEN UpstreamCode
                              ELSE IF kind = "network" THEN 502 ELSE 500, << >>)
    /\ UNCHANGED <<OPENAI_API_KEY, video_jobs, now, pc, client, session, jobs, log,
                   lastTick, stream>>

\* create_video when the submit call returns a body
create_video ==
    \E request \in Requests, rid \in RemoteIds(video_jobs), b \in SubmitBodies :
        CreateWith(request, rid, b.status, b.payload)

\* create_video when it ends before the submit call returns a remote id
create_video_fails ==
    \E request \in Requests, kind \in {"nocredential", "upstream", "network", "noid"} :
        CreateFails(request, kind)

\* time passes
Advance ==
    /\ now < MaxClock
    /\ now' = now + 1
    /\ UNCHANGED <<OPENAI_API_KEY, video_jobs, pc, client, session, jobs, log, lastTick>>
    /\ Silent

Next ==
    \/ Startup
    \/ TickNoClient
    \/ TickBegin
    \/ Poll
    \/ Wake
    \/ create_video
    \/ Advance

Spec == Init /\ [][Next]_vars

\* the loop's own steps; the event loop runs the task whenever it can go on,
\* and every remote call returns or raises within its timeout
LoopStep == Startup \/ TickNoClient \/ TickBegin \/ Poll \/ Wake

LoopSpec == Init /\ [][Next]_vars /\ WF_vars(LoopStep)

\* ------------------------------------------------------------------ claims
\* job j is polled in this step
PolledNow(j) == j \in DOMAIN log' /\ j \notin DOMAIN log

\* C1: once the stored status of a job is COMPLETED or FAILED, no step changes
\* any field of its row, no tick has it among the jobs it is to poll and no
\* call of retrieve_video is made for it.
C1_TerminalFrozen ==
    [][\A j \in DOMAIN video_jobs :
         video_jobs[j].status \in Terminal =>
           /\ video_jobs'[j] = video_jobs[j]
           /\ ~PolledNow(j)
           /\ \A i \in 1..Len(jobs') : jobs'[i] # j]_vars

\* a tick runs while the table holds a terminal job that an earlier tick
\* made terminal
C1_Witness ==
    /\ pc = "polling"
    /\ lastTick = "ok"
    /\ \E j \in DOMAIN video_jobs :
         video_jobs[j].status \in Terminal /\ video_jobs[j].error_message = "rate limited"

\* C2: every change of a stored status goes from QUEUED or PROCESSING to
\* PROCESSING, COMPLETED or FAILED.
C2_TickTransitions ==
    [][\A j \in DOMAIN video_jobs :
         video_jobs'[j].status # video_jobs[j].status =>
           /\ video_jobs[j].status \in {QUEUED, PROCESSING}
           /\ video_jobs'[j].status \in {PROCESSING, COMPLETED, FAILED}]_vars

\* C3: the status of every stored job is one of the four of VideoStatusEnum.
C3_StatusInEnum ==
    \A j \in DOMAIN video_jobs : video_jobs[j].status \in VideoStatusEnum

\* C4: in every committed state error_message is non-null exactly for the
\* jobs whose status is FAILED.
C4_ErrorIffFailed ==
    \A j \in DOMAIN video_jobs :
        (video_jobs[j].error_message # NULL) <=> (video_jobs[j].status = FAILED)

\* C5: the step in which retrieve_video for job j ends in a non-2xx response
\* leaves j in the session FAILED, with the response body as error_message and
\* the current time as updated_at, and leaves every other row as it was; when
\* the tick has committed, j is stored FAILED with that body.
C5_UpstreamError ==
    /\ [][\A j \in DOMAIN video_jobs :
            (PolledNow(j) /\ log'[j].kind = "upstream") =>
              /\ session'[j].status = FAILED
              /\ session'[j].error_message = log'[j].body
              /\ session'[j].updated_at = now
              /\ \A k \in DOMAIN session \ {j} : session'[k] = session[k]
              /\ \A k \in DOMAIN video_jobs \ DOMAIN session :
                    video_jobs'[k] = video_jobs[k]]_vars
    /\ [](\A j \in DOMAIN log :
            (log[j].kind = "upstream" /\ lastTick = "ok" /\ pc = "sleep") =>
              /\ video_jobs[j].status = FAILED
              /\ video_jobs[j].error_message = log[j].body)

\* a committed tick in which one job met the non-2xx response at a later time
\* than its row was written and another job of the same tick did not fail
C5_Witness ==
    /\ pc = "sleep" /\ lastTick = "ok"
    /\ \E j, k \in DOMAIN log :
         /\ j # k
         /\ log[j].kind = "upstream" /\ log[j].body = "rate limited"
         /\ video_jobs[j].status = FAILED /\ video_jobs[j].updated_at = 1
         /\ log[k].kind = "ok" /\ video_jobs[k].status = PROCESSING

\* C6: a job whose call of retrieve_video ended in a network error has, for
\* the rest of the tick and after it, the row it had before (in the session
\* and in the table) and is still QUEUED or PROCESSING; and every job that is
\* QUEUED or PROCESSING when a tick of the loop that holds a client starts is
\* among the jobs that tick is to poll.
C6_NetworkError ==
    /\ [](\A j \in DOMAIN log :
            log[j].kind = "network" =>
              /\ video_jobs[j].status \in Pollable
              /\ (j \in DOMAIN session => session[j] = video_jobs[j]))
    /\ [][\A j \in DOMAIN log' :
            log'[j].kind = "network" => video_jobs'[j] = video_jobs[j]]_vars
    /\ [][\A j \in DOMAIN video_jobs :
            (video_jobs[j].status \in Pollable /\ client /\ pc = "top" /\ pc' # "top") =>
              (pc' = "polling" /\ \E i \in 1..Len(jobs') : jobs'[i] = j)]_vars

\* a tick has ended in which the call for job j met a network error at a
\* later time than j was written, while another job of the tick was updated
C6_Witness ==
    /\ pc = "sleep" /\ lastTick = "ok" /\ now = 1
    /\ \E j, k \in DOMAIN log :
         /\ log[j].kind = "network"
         /\ video_jobs[j].updated_at = 0
         /\ log[k].kind = "ok" /\ video_jobs[k].updated_at = 1

\* C7: only the commit that ends a tick without failure changes rows of the
\* table: a tick that is aborted leaves the table as it was, and after a tick
\* that ended without failure every row of its session is stored as the
\* session held it.
C7_TickAtomic ==
    /\ [][\A j \in DOMAIN video_jobs :
            video_jobs'[j] # video_jobs[j] =>
              (pc = "polling" /\ pc' = "sleep" /\ lastTick' = "ok")]_vars
    /\ [][(pc = "polling" /\ pc' # "polling" /\ lastTick' = "aborted") =>
            video_jobs' = video_jobs]_vars
    /\ [](lastTick = "ok" /\ pc = "sleep" =>
            \A j \in DOMAIN session : video_jobs[j] = session[j])

\* a tick was aborted after it had marked a job FAILED in its session, and the
\* job is stored as it was
C7_Witness ==
    /\ lastTick = "aborted" /\ pc = "sleep"
    /\ \E j \in DOMAIN log :
         log[j].kind = "upstream" /\ video_jobs[j].status \in Pollable

\* C9: with no credential the loop never holds a client and never calls the
\* remote API, no step changes the table, and every tick ends as skipped with
\* the client still None, so that the next tick calls get_openai_client again.
C9_NoClientNoOp ==
    /\ [](~OPENAI_API_KEY => (~client /\ log = Empty /\ pc # "polling"))
    /\ [][~OPENAI_API_KEY => video_jobs' = video_jobs]_vars
    /\ [][(~OPENAI_API_KEY /\ pc = "top" /\ pc' # "top") =>
            (pc' = "sleep" /\ lastTick' = "noclient" /\ ~client')]_vars

\* a tick was skipped while a job waits to be polled
C9_Witness ==
    /\ lastTick = "noclient" /\ pc = "sleep"
    /\ \E j \in DOMAIN video_jobs : video_jobs[j].status \in Pollable

\* C8: the loop is always at one of its four places and always has a next
\* step; a tick that ends, however it ends, ends in the sleep of line 88, and
\* the step after the sleep is the start of another tick.
C8_LoopNeverStops ==
    /\ [](pc \in {"startup", "top", "polling", "sleep"})
    /\ [](ENABLED LoopStep)
    /\ [][(pc \in {"top", "polling"} /\ pc' \notin {"top", "polling"}) =>
            (pc' = "sleep" /\ lastTick' \in {"ok", "noclient", "aborted"})]_vars
    /\ [][(pc = "sleep" /\ pc' # "sleep") => pc' = "top"]_vars

\* with the loop's steps taken whenever they can be, ticks start and end
\* again and again, whatever the outcome of the tick before
TicksRecur ==
    /\ []<>(pc = "sleep")
    /\ \A o \in {"ok", "noclient", "aborted"} :
          [](pc = "sleep" /\ lastTick = o => <>(pc = "top"))

\* a tick is running after a tick that was aborted
C8_Witness == pc = "polling" /\ lastTick = "aborted"

\* ------------------------------------------------------------- the merge
\* the content members a "completed" body may carry
MergePayloads ==
    [default_variant : {NULL, "", "hd"}, variant : {NULL, "sd"},
     content_variants : {<< >>, <<"c1", "c2">>}, variants : {<< >>, <<"v1", "v2">>},
     content_token : {NULL}, download_token : {NULL, "tok"},
     content_token_expires_at : {NULL, ExpiryZ, ExpiryBad, ExpiryNumber},
     token_expires_at : {NULL, ExpiryOffset}]

\* the body of a 2xx answer that says "completed" and carries payload
CompletedWith(payload) ==
    [kind |-> "ok", body |-> NULL, status |-> COMPLETED, error |-> "absent",
     payload |-> payload]

\* tables of one job that waits to be polled, with the content columns as
\* they may have been written before
MergeTables ==
    { [j \in {1} |-> VideoJob(1, request, 1, status, variant, NoTime, token, expires, 0)] :
        request \in Requests, status \in Pollable, variant \in {NULL, "old"}, token \in {NULL, "tok0"},
        expires \in {NoTime, Instant2030} }

\* the loop stands at the top of a tick, with its client, over such a table
MergeInit ==
    /\ OPENAI_API_KEY = TRUE
    /\ video_jobs \in MergeTables
    /\ now = 1
    /\ reply = NoReply
    /\ stream = NoStream
    /\ pc = "top"
    /\ client = TRUE
    /\ session = Empty
    /\ jobs = << >>
    /\ log = Empty
    /\ lastTick = "none"

\* retrieve_video answers "completed" with some payload
MergePoll == \E payload \in MergePayloads : PollWith(CompletedWith(payload))

MergeNext ==
    \/ TickBegin
    \/ MergePoll
    \/ Wake

\* ticks that find the job completed, whatever the payload
MergeSpec == MergeInit /\ [][MergeNext]_vars

\* the ids a request may name: 0 is the id of no job
RequestIds == 0..MaxJobs

\* the rows a handler's own session reads while the session of a tick holds
\* the rows sess: the committed ones
db_queryMutant(table, sess) == Commit(table, sess)
db_query(table, sess) == table

\* get_video, lines 209-214
get_video(job_id) ==
    /\ LET rows == db_query(video_jobs, session)
       IN  reply' = IF job_id \in DOMAIN rows
                    THEN Reply("get", job_id, "none", NULL, NULL, 200, <<rows[job_id]>>)
                    ELSE Reply("get", job_id, "none", NULL, NULL, 404, << >>)
    /\ UNCHANGED <<OPENAI_API_KEY, video_jobs, now, pc, client, session, jobs, log,
                   lastTick, stream>>

\* list_videos, lines 203-206: every row, the later created first
list_videos ==
    /\ LET rows == db_query(video_jobs, session)
       IN  \E s \in Orders(DOMAIN rows) :
             /\ \A a, b \in DOMAIN s :
                   a < b => rows[s[a]].created_at >= rows[s[b]].created_at
             /\ reply' = Reply("list", NULL, "none", NULL, NULL, 200,
                               [i \in DOMAIN s |-> rows[s[i]]])
    /\ UNCHANGED <<OPENAI_API_KEY, video_jobs, now, pc, client, session, jobs, log,
                   lastTick, stream>>

HandlerNext ==
    \/ Next
    \/ create_video_fails
    \/ \E job_id \in RequestIds : get_video(job_id)
    \/ list_videos

\* the service with every call of create_video and with its two read handlers
HandlerSpec == Init /\ [][HandlerNext]_vars

\* the status code get_video_media answers with before it calls the remote
\* API, lines 217-228 (200: it goes on to open the stream)
MediaGateMutant(rows, job_id) ==
    IF job_id \notin DOMAIN rows THEN 404
    ELSE IF rows[job_id].status # COMPLETED THEN 409
    ELSE IF ~get_openai_client THEN 500
    ELSE 200

MediaGate(rows, job_id) ==
    IF ~get_openai_client THEN 500
    ELSE IF job_id \notin DOMAIN rows THEN 404
    ELSE IF rows[job_id].status # COMPLETED THEN 409
    ELSE 200

\* get_video_media, lines 217-254, up to the return of the response; opened
\* says how stream_video_content ended: with the response of the remote API
\* ("ok"), with a non-2xx response or with no response. After a non-2xx
\* response the handler reads the text of a body that was not read, which
\* httpx refuses, so the reply is the remote code or a 500.
get_video_media(job_id, variant, opened) ==
    /\ LET rows == db_query(video_jobs, session)
           gate == MediaGate(rows, job_id)
           job == rows[job_id]
           sent == [id |-> job.sora_job_id,
                    variant |-> Or(variant, Or(job.content_variant, "source")),
                    token |-> Or(job.content_token, NULL)]
       IN  IF gate # 200
           THEN /\ reply' = Reply("media", <<job_id, variant>>, "none", NULL, NULL, gate, << >>)
                /\ UNCHANGED stream
           ELSE /\ stream.iter \notin {"unstarted", "started"}
                /\ IF opened = "ok"
                   THEN /\ stream' = [conn |-> "open", iter |-> "unstarted"]
                        /\ reply' = Reply("media", <<job_id, variant>>, "content", sent,
                                          opened, 200, << >>)
                   ELSE /\ stream' = NoStream
                        /\ \E code \in (IF opened = "upstream"
                                         THEN {UpstreamCode, 500} ELSE {502}) :
                             reply' = Reply("media", <<job_id, variant>>, "content", sent,
                                            opened, code, << >>)
    /\ UNCHANGED <<OPENAI_API_KEY, video_jobs, now, pc, client, session, jobs, log, lastTick>>

\* the consumer of the response asks iterator() for a chunk and gets one
StreamChunk ==
    /\ stream.conn = "open" /\ stream.iter \in {"unstarted", "started"}
    /\ stream' = [stream EXCEPT !.iter = "started"]
    /\ reply' = NoReply
    /\ UNCHANGED <<OPENAI_API_KEY, video_jobs, now, pc, client, session, jobs, log, lastTick>>

\* the consumer asks for a chunk and the remote body is at its end: the
\* finally of iterator() leaves the context of stream_video_content
StreamEnd ==
    /\ stream.conn = "open" /\ stream.iter \in {"unstarted", "started"}
    /\ stream' = [conn |-> "closed", iter |-> "finished"]
    /\ reply' = NoReply
    /\ UNCHANGED <<OPENAI_API_KEY, video_jobs, now, pc, client, session, jobs, log, lastTick>>

\* the consumer asks for a chunk and reading the remote body raises: the
\* finally of iterator() runs as the exception leaves it
StreamReadError ==
    /\ stream.conn = "open" /\ stream.iter \in {"unstarted", "started"}
    /\ stream' = [conn |-> "closed", iter |-> "failed"]
    /\ reply' = NoReply
    /\ UNCHANGED <<OPENAI_API_KEY, video_jobs, now, pc, client, session, jobs, log, lastTick>>

\* the consumer gives the response up. A generator that stands at its yield
\* is closed there and its finally runs. A generator that was never asked
\* for a chunk has not entered its try: none of its code runs, and the
\* context of stream_video_content is left only if the interpreter happens
\* to finalize it.
ConsumerAbandons ==
    /\ stream.conn = "open" /\ stream.iter \in {"unstarted", "started"}
    /\ IF stream.iter = "started"
       THEN stream' = [conn |-> "closed", iter |-> "abandoned"]
       ELSE \E conn \in {"open", "closed"} :
              stream' = [conn |-> conn, iter |-> "abandoned"]
    /\ reply' = NoReply
    /\ UNCHANGED <<OPENAI_API_KEY, video_jobs, now, pc, client, session, jobs, log, lastTick>>

MediaNext ==
    \/ Next
    \/ \E job_id \in RequestIds, variant \in {NULL, "hd"},
          opened \in {"ok", "upstream", "network"} :
            get_video_media(job_id, variant, opened)
    \/ StreamChunk
    \/ StreamEnd
    \/ StreamReadError
    \/ ConsumerAbandons

\* the service with its media handler and the consumers of its responses
MediaSpec == Init /\ [][MediaNext]_vars

\* the terminal status the remote API holds for job j in the end
RemoteTruth(j) == IF j = 1 THEN COMPLETED ELSE FAILED

\* the answers of a remote API that serves the claim best: it never answers
\* with a non-2xx response or with a null error member, and the only terminal
\* status it ever reports for a job is the one it holds for it in the end
TruthfulOutcomes(j) ==
    {o \in Outcomes : /\ o.kind # "upstream"
                      /\ o.error # "null"
                      /\ (o.status \in Terminal => o.status = RemoteTruth(j))}

PollTruthful ==
    /\ jobs # << >>
    /\ \E o \in TruthfulOutcomes(Head(jobs)) : PollWith(o)

CreateTruthful ==
    \E request \in Requests, rid \in RemoteIds(video_jobs), b \in SubmitBodies :
        /\ b.status \in Terminal => b.status = RemoteTruth(Cardinality(DOMAIN video_jobs) + 1)
        /\ CreateWith(request, rid, b.status, b.payload)

\* retrieve_video for job j answers with the status the remote API holds for it
PollFinal(j) ==
    /\ jobs # << >>
    /\ Head(jobs) = j
    /\ \E o \in TruthfulOutcomes(j) : o.kind = "ok" /\ o.status = RemoteTruth(j) /\ PollWith(o)

TruthfulNext ==
    \/ Startup
    \/ TickNoClient
    \/ TickBegin
    \/ PollTruthful
    \/ Wake
    \/ CreateTruthful
    \/ Advance

\* the loop keeps running against that remote API and, for every job, a call
\* of retrieve_video that is made again and again is in the end answered with
\* the job's terminal status
FairSpec ==
    /\ Init /\ [][TruthfulNext]_vars
    /\ WF_vars(Startup \/ TickNoClient \/ TickBegin \/ PollTruthful \/ Wake)
    /\ \A j \in JobIds : SF_vars(PollFinal(j))

\* C10: with a credential, every stored job is in the end stored with the
\* terminal status the remote API holds for it.
C10_EventuallyConsistent ==
    \A j \in JobIds :
       []((OPENAI_API_KEY /\ j \in DOMAIN video_jobs) =>
            <>(j \in DOMAIN video_jobs /\ video_jobs[j].status = RemoteTruth(j)))

\* the columns of a row that hold what the job was created with
Created(job) ==
    [id |-> job.id, sora_job_id |-> job.sora_job_id, prompt |-> job.prompt,
     duration |-> job.duration, aspect_ratio |-> job.aspect_ratio,
     format |-> job.format, user_id |-> job.user_id, created_at |-> job.created_at]

\* C11: a row is stored under its own local id, and no step changes the local
\* id, the remote id, the prompt, the duration, the aspect ratio, the format,
\* the user id or created_at of a row, in the table or in the session of a
\* tick; the session of a tick holds these columns as the table does, and the
\* step that adds a row is not a step of the loop.
C11_CreatedColumnsFrozen ==
    /\ [](\A j \in DOMAIN video_jobs : video_jobs[j].id = j)
    /\ [](\A j \in DOMAIN session : Created(session[j]) = Created(video_jobs[j]))
    /\ [][\A j \in DOMAIN video_jobs :
            /\ j \in DOMAIN video_jobs'
            /\ Created(video_jobs'[j]) = Created(video_jobs[j])]_vars
    /\ [][DOMAIN video_jobs' # DOMAIN video_jobs =>
            (pc' = pc /\ session' = session /\ jobs' = jobs /\ log' = log)]_vars

\* a tick has ended that wrote the answer "completed" into a row created at
\* an earlier time from a request that gave every member
C11_Witness ==
    /\ pc = "sleep" /\ lastTick = "ok"
    /\ \E j \in DOMAIN log :
         /\ Created(video_jobs[j]).prompt = "a dog"
         /\ video_jobs[j].created_at = 0 /\ video_jobs[j].updated_at = 1
         /\ video_jobs[j].status = COMPLETED

\* C12: a stored row has a content_ready_at exactly if its status is
\* COMPLETED; the step that stores a job as COMPLETED, at its creation or at
\* the commit of a tick, stores a content_ready_at no later than the current
\* time, the one the session took when the answer came, and no step changes a
\* content_ready_at that is stored or that a session holds.
C12_ReadyAtOnce ==
    /\ [](\A j \in DOMAIN video_jobs :
            (video_jobs[j].content_ready_at # NoTime) <=> (video_jobs[j].status = COMPLETED))
    /\ [](\A j \in DOMAIN session :
            (session[j].content_ready_at # NoTime) <=> (session[j].status = COMPLETED))
    /\ [][\A j \in DOMAIN video_jobs :
            video_jobs[j].content_ready_at # NoTime =>
              video_jobs'[j].content_ready_at = video_jobs[j].content_ready_at]_vars
    /\ [][\A j \in DOMAIN session \cap DOMAIN session' :
            /\ session[j].content_ready_at # NoTime =>
                  session'[j].content_ready_at = session[j].content_ready_at
            /\ (session[j].content_ready_at = NoTime /\ session'[j].content_ready_at # NoTime) =>
                  session'[j].content_ready_at = now]_vars
    /\ [][\A j \in DOMAIN video_jobs' :
            (video_jobs'[j].content_ready_at # NoTime
               /\ (j \in DOMAIN video_jobs => video_jobs[j].content_ready_at = NoTime)) =>
              IF j \in DOMAIN video_jobs
              THEN video_jobs'[j].content_ready_at = session'[j].content_ready_at
              ELSE video_jobs'[j].content_ready_at = now]_vars

\* one job was stored COMPLETED at its creation and, at a later time, a tick
\* has stored another as COMPLETED
C12_Witness ==
    /\ pc = "sleep" /\ lastTick = "ok"
    /\ \E j, k \in DOMAIN video_jobs :
         /\ k \in DOMAIN log /\ j \notin DOMAIN log
         /\ video_jobs[j].content_ready_at = 0 /\ video_jobs[j].created_at = 0
         /\ video_jobs[k].content_ready_at = 1 /\ video_jobs[k].status = COMPLETED

\* the job a media request names, as the table holds it
Named == video_jobs[reply.input[1]]

\* C13 as stated: whatever the configuration, the reply to a media request
\* for an id that is not stored is a 404, the reply to one for a job stored
\* QUEUED or PROCESSING is a 409, and no remote content call was made.
C13_MediaRefusedAnyConfig ==
    reply.op = "media" =>
      /\ reply.input[1] \notin DOMAIN video_jobs =>
            (reply.code = 404 /\ reply.called = "none")
      /\ (reply.input[1] \in DOMAIN video_jobs /\ Named.status \in {QUEUED, PROCESSING}) =>
            (reply.code = 409 /\ reply.called = "none")

\* C13, amended: with the credential, the reply to a media request for an id
\* that is not stored is a 404 and the reply to one for a job stored QUEUED
\* or PROCESSING is a 409; without the credential the reply is a 500 for any
\* id; in all these cases no remote content call was made and no stream was
\* opened by the request.
C13_MediaRefused ==
    /\ [](reply.op = "media" =>
            /\ ~OPENAI_API_KEY => (reply.code = 500 /\ reply.called = "none")
            /\ (OPENAI_API_KEY /\ reply.input[1] \notin DOMAIN video_jobs) =>
                  (reply.code = 404 /\ reply.called = "none")
            /\ (OPENAI_API_KEY /\ reply.input[1] \in DOMAIN video_jobs
                   /\ Named.status \in {QUEUED, PROCESSING}) =>
                  (reply.code = 409 /\ reply.called = "none"))
    /\ [][(reply'.op = "media" /\ reply'.called = "none") => stream' = stream]_vars

\* a media request for a job that a running tick holds, stored PROCESSING,
\* was answered with 409
C13_Witness ==
    /\ reply.op = "media" /\ reply.code = 409
    /\ pc = "polling"
    /\ reply.input[1] \in DOMAIN video_jobs /\ Named.status = PROCESSING

\* C14: when the body iterator of a media response has come to its end, has
\* raised or was given up by the consumer, the remote connection is not open.
C14_StreamReleased ==
    stream.iter \in {"finished", "failed", "abandoned"} => stream.conn # "open"

\* this step is a call of get_video for the id that the call of create_video
\* of the step before returned with its 200
FetchedAfterCreate ==
    /\ reply.op = "create" /\ reply.code = 200
    /\ reply'.op = "get" /\ reply'.input = reply.jobs[1].id

\* the row a call of get_video that follows a call of create_video finds has
\* the prompt, the remote id and the parameters of that call
SameAsSubmitted ==
    /\ reply'.code = 200
    /\ reply'.jobs[1].prompt = reply.input.prompt
    /\ reply'.jobs[1].sora_job_id = reply.answer.id
    /\ reply'.jobs[1].duration = reply.input.duration
    /\ reply'.jobs[1].aspect_ratio = reply.input.aspect_ratio
    /\ reply'.jobs[1].format = reply.input.format
    /\ reply'.jobs[1].user_id =
          (IF reply.input.user_id = NULL THEN "demo-user" ELSE reply.input.user_id)

Present(x) == x # NULL /\ x # ""

\* the variants list of a payload: "content_variants", or "variants" when
\* that is not there or empty
VariantsList(payload) ==
    IF payload.content_variants # << >> THEN payload.content_variants ELSE payload.variants

\* C16: after a "completed" answer is merged (the merge returns and the tick
\* is not aborted in it), content_variant is the
\* payload's default_variant if that is there, else its variant if that is
\* there, else the first entry of its variants list if that has one, else the
\* variant the job had before, or "source" if it had none; so default_variant
\* "hd" gives "hd", and a payload without any of the three on a job without a
\* variant gives "source". The tick stores what the merge gave.
C16_MergedVariant ==
    [][\A payload \in MergePayloads :
         (PollWith(CompletedWith(payload)) /\ lastTick' # "aborted") =>
           LET before == session[Head(jobs)]
               after == session'[Head(jobs)]
           IN  /\ after.content_variant =
                     (IF Present(payload.default_variant) THEN payload.default_variant
                      ELSE IF Present(payload.variant) THEN payload.variant
                      ELSE IF VariantsList(payload) # << >> THEN VariantsList(payload)[1]
                      ELSE IF before.content_variant # NULL THEN before.content_variant
                      ELSE "source")
               /\ payload.default_variant = "hd" => after.content_variant = "hd"
               /\ (payload.default_variant = NULL /\ payload.variant = NULL
                     /\ payload.content_variants = << >> /\ payload.variants = << >>
                     /\ before.content_variant = NULL) => after.content_variant = "source"
               /\ video_jobs'[Head(jobs)].content_variant = after.content_variant]_vars

\* a tick has stored a job as COMPLETED with the first entry of the list
\* "variants" of the payload
C16_Witness ==
    /\ pc = "sleep" /\ lastTick = "ok"
    /\ 1 \in DOMAIN log
    /\ video_jobs[1].status = COMPLETED /\ video_jobs[1].content_variant = "v1"

\* the expiry value of a payload: "content_token_expires_at", or
\* "token_expires_at" when that is not there
ExpiryValue(payload) ==
    IF Present(payload.content_token_expires_at)
    THEN payload.content_token_expires_at ELSE payload.token_expires_at

\* C17: when the expiry value of a "completed" answer is not there or is not
\* a date (a string that is none, or no string at all), the merge leaves content_token_expires_at as it was (a date or
\* None) and nothing is raised: the job is COMPLETED in the session with its
\* error cleared, its content_ready_at set and the token of the payload, if
\* it has one, stored; the tick goes on to its next job, or to its commit,
\* which stores the row as the session holds it.
C17_BadExpiryIgnored ==
    [][\A payload \in MergePayloads :
         (PollWith(CompletedWith(payload))
            /\ ExpiryValue(payload) \notin {ExpiryZ, ExpiryOffset}) =>
           LET before == session[Head(jobs)]
               after == session'[Head(jobs)]
           IN  /\ lastTick' # "aborted"
               /\ jobs' = Tail(jobs)
               /\ after.content_token_expires_at = before.content_token_expires_at
               /\ after.status = COMPLETED /\ after.error_message = NULL
               /\ after.content_ready_at = now
               /\ after.content_token =
                     (IF Present(payload.download_token) THEN payload.download_token
                      ELSE before.content_token)
               /\ jobs' = << >> =>
                     (pc' = "sleep" /\ lastTick' = "ok"
                        /\ video_jobs'[Head(jobs)] = after)]_vars

\* the jobs a tick has still to poll
ToPoll == {jobs[i] : i \in 1..Len(jobs)}

\* C18: a tick of the loop that holds a client loads exactly the jobs stored
\* QUEUED or PROCESSING, each once; every step of the tick polls the next of
\* them, which was not polled in this tick before; after a non-2xx response
\* or a network error for one job the tick goes on with the jobs that are
\* left; and when the tick has ended without being aborted, every job it
\* loaded has been polled.
C18_EachLoadedPolledOnce ==
    /\ [][(pc = "top" /\ pc' # "top" /\ client') =>
            /\ DOMAIN session' =
                  {j \in DOMAIN video_jobs : video_jobs[j].status \in {QUEUED, PROCESSING}}
            /\ ToPoll' = DOMAIN session' /\ Len(jobs') = Cardinality(DOMAIN session')
            /\ log' = Empty]_vars
    /\ [](pc = "polling" =>
            /\ ToPoll \cap DOMAIN log = {}
            /\ ToPoll \cup DOMAIN log = DOMAIN session
            /\ Len(jobs) = Cardinality(ToPoll) /\ jobs # << >>)
    /\ [][(pc = "polling" /\ <<pc, jobs, session, log>>' # <<pc, jobs, session, log>>) =>
            /\ Head(jobs) \notin DOMAIN log
            /\ DOMAIN log' = DOMAIN log \cup {Head(jobs)}
            /\ log'[Head(jobs)].kind \in {"upstream", "network"} =>
                  /\ jobs' = Tail(jobs)
                  /\ jobs' # << >> => pc' = "polling"
                  /\ jobs' = << >> => lastTick' = "ok"]_vars
    /\ [](pc = "sleep" /\ lastTick = "ok" => DOMAIN log = DOMAIN session)

\* a tick has ended without being aborted in which one job met a non-2xx
\* response and another a network error
C18_Witness ==
    /\ pc = "sleep" /\ lastTick = "ok"
    /\ \E j, k \in DOMAIN log :
         log[j].kind = "upstream" /\ log[k].kind = "network"

\* C19: the step that inserts a job while a tick runs leaves the tick as it
\* is: its session, the jobs it has still to poll and its record of calls;
\* the tick polls jobs of its session only, and its session holds the same
\* jobs from its load to its end; no step of a tick, its commit included,
\* removes or changes a stored row that is not in its session; and the next
\* tick of the loop that holds a client has every stored job that is QUEUED
\* or PROCESSING, the inserted one included, among the jobs it is to poll.
C19_InsertDuringTick ==
    /\ [][(pc = "polling" /\ DOMAIN video_jobs' # DOMAIN video_jobs) =>
            /\ <<pc, session, jobs, log, lastTick>>' = <<pc, session, jobs, log, lastTick>>
            /\ DOMAIN video_jobs \subseteq DOMAIN video_jobs'
            /\ \A j \in DOMAIN video_jobs : video_jobs'[j] = video_jobs[j]]_vars
    /\ [](pc = "polling" => ToPoll \subseteq DOMAIN session)
    /\ [][(pc = "polling" /\ pc' = "polling") => DOMAIN session' = DOMAIN session]_vars
    /\ [][\A j \in DOMAIN video_jobs : PolledNow(j) => j \in DOMAIN session]_vars
    /\ [][\A j \in DOMAIN video_jobs \ DOMAIN session :
            pc = "polling" => (j \in DOMAIN video_jobs' /\ video_jobs'[j] = video_jobs[j])]_vars
    /\ [][(pc = "top" /\ pc' # "top" /\ client') =>
            \A j \in DOMAIN video_jobs :
               video_jobs[j].status \in {QUEUED, PROCESSING} =>
                 (pc' = "polling" /\ j \in ToPoll')]_vars

\* a tick has committed the answer it got at time 1 for one job, and a job
\* that was inserted at time 0, after the tick had loaded its jobs, is stored
\* as it was inserted and waits for the next tick
C19_Witness ==
    /\ pc = "sleep" /\ lastTick = "ok"
    /\ \E j \in DOMAIN video_jobs \ DOMAIN session, k \in DOMAIN log :
         /\ video_jobs[j].status \in {QUEUED, PROCESSING}
         /\ video_jobs[j].created_at = 0 /\ video_jobs[j].updated_at = 0
         /\ log[k].kind = "ok" /\ video_jobs[k].updated_at = 1

\* C20: get_video finds the row of the table, or no row when the id is not
\* stored, and list_videos finds every row of the table, each as the table
\* holds it; while a tick runs, the table holds the rows of the tick's session
\* as the tick loaded them, whatever the tick has written into its session;
\* the commit that ends the tick stores every row of the session at once, and
\* an aborted tick stores none.
C20_ReadsSeeCommitted ==
    /\ [][reply'.op = "get" =>
            IF reply'.input \in DOMAIN video_jobs
            THEN reply'.code = 200 /\ reply'.jobs = <<video_jobs[reply'.input]>>
            ELSE reply'.code = 404 /\ reply'.jobs = << >>]_vars
    /\ [][reply'.op = "list" =>
            /\ Len(reply'.jobs) = Cardinality(DOMAIN video_jobs)
            /\ \A j \in DOMAIN video_jobs :
                  \E i \in 1..Len(reply'.jobs) : reply'.jobs[i] = video_jobs[j]]_vars
    /\ [][(pc = "top" /\ pc' = "polling") =>
            \A j \in DOMAIN session' : session'[j] = video_jobs[j]]_vars
    /\ [][(pc = "polling" /\ (pc' = "polling" \/ lastTick' = "aborted")) =>
            \A j \in DOMAIN video_jobs : video_jobs'[j] = video_jobs[j]]_vars
    /\ [][(pc = "polling" /\ pc' # "polling" /\ lastTick' = "ok") =>
            \A j \in DOMAIN session' : video_jobs'[j] = session'[j]]_vars

\* while a tick runs that has marked a job FAILED in its session, get_video
\* for that job has found it as it was stored before the tick
C20_Witness ==
    /\ reply.op = "get" /\ reply.code = 200
    /\ pc = "polling" /\ reply.input \in DOMAIN session
    /\ session[reply.input].status = FAILED
    /\ reply.jobs[1].status = QUEUED /\ reply.jobs[1].error_message = NULL

\* the call of create_video made in this step got no remote id: the
\* credential is missing, or the submit call ended in a non-2xx response, in
\* no response or in a body without an id
NoRemoteId ==
    /\ reply'.op = "create"
    /\ \/ reply'.called = "none"
       \/ reply'.called = "create" /\ reply'.answer.kind # "ok"

\* C21: a call of create_video that got no remote id leaves the table as it
\* was and is answered with an error: 500 without a submit call when the
\* credential is missing, the remote status code after a non-2xx response,
\* 502 after a network error; a step that adds a row is a call of
\* create_video whose submit call returned a body with a remote id, and the
\* row carries that id; no other row is changed by it.
C21_FailedCreateInsertsNothing ==
    /\ [][NoRemoteId =>
            /\ video_jobs' = video_jobs
            /\ reply'.jobs = << >>
            /\ reply'.code \in {500, UpstreamCode, 502}
            /\ (~OPENAI_API_KEY) <=> (reply'.called = "none")
            /\ reply'.called = "none" => reply'.code = 500
            /\ (reply'.called = "create" /\ reply'.answer.kind = "upstream") =>
                  reply'.code = UpstreamCode
            /\ (reply'.called = "create" /\ reply'.answer.kind = "network") =>
                  reply'.code = 502]_vars
    /\ [][DOMAIN video_jobs' # DOMAIN video_jobs =>
            /\ reply'.op = "create" /\ reply'.code = 200
            /\ reply'.called = "create" /\ reply'.answer.kind = "ok"
            /\ \E j \in DOMAIN video_jobs' \ DOMAIN video_jobs :
                  /\ DOMAIN video_jobs' = DOMAIN video_jobs \cup {j}
                  /\ video_jobs'[j].sora_job_id = reply'.answer.id
            /\ \A j \in DOMAIN video_jobs : video_jobs'[j] = video_jobs[j]]_vars

\* while a tick runs over a stored job, a call of create_video whose submit
\* call met a network error was answered with 502
C21_Witness ==
    /\ reply.op = "create" /\ reply.code = 502
    /\ reply.called = "create" /\ reply.answer.kind = "network"
    /\ pc = "polling" /\ video_jobs # Empty
====
